---------------------------- MODULE Spec2Model ----------------------------
(***************************************************************************)
(* A model of the FastAPI-JWT authentication router (src/fastapi_jwt):     *)
(* signup, login, who-am-i and extend-token over a Users/Salts store and a *)
(* signed, time-bounded bearer token.                                      *)
(*                                                                         *)
(* Time is counted in ticks, TicksPerSecond ticks to a second, so that a   *)
(* POSIX timestamp (a float in the code) has a fractional part and int()   *)
(* of it is a real truncation.  External libraries are modelled by what    *)
(* they do at the call sites: PyJWT's encode/decode (HS signature over the *)
(* payload, exp/iat validation with leeway), hashlib.scrypt (an injective  *)
(* function of password and salt), and the SQL store (InnoDB: a unique     *)
(* index on users.username, transactions whose writes are invisible to     *)
(* other sessions until commit).                                           *)
(***************************************************************************)
EXTENDS Integers, Sequences, FiniteSets, TLC

VARIABLES
    now,        \* the UTC wall clock, in ticks
    lifespan,   \* os.getenv("JWT_LIFESPAN"), in seconds
    users,      \* committed rows of table "users"
    salts,      \* committed rows of table "salts"
    tx,         \* per client: the uncommitted writes of its open transaction
    pc,         \* per client: the position of its request handler
    req,        \* per client: the request being (or last) handled, and for a
                \* token request the clock readings its handler took
    local,      \* per client: the handler's local variables
    resp,       \* per client: the response to its last finished request
    issued,     \* every token the service has issued so far
    nextId,     \* source of fresh ULIDs
    served      \* requests counted against MaxRequests so far

vars == <<now, lifespan, users, salts, tx, pc, req, local, resp, issued, nextId, served>>

-----------------------------------------------------------------------------
(* Bounds of the model *)

MaxTime == 1          \* the clock of Spec stops at this tick
MaxTokenTime == 7     \* the clock of SpecToken stops at this tick
MaxLifespan == 2      \* JWT_LIFESPAN ranges over 1..MaxLifespan seconds
MaxTokens == 1        \* tokens issued in one run of SpecToken
MaxRequests == 3      \* requests accepted in one run over the store
TicksPerSecond == 2   \* resolution of the clock

Clients == {"c1", "c2"}
TokenClients == {"c1"}
Usernames == {"alice", "bob"}
Passwords == {"pw1", "pw2"}
SaltValues == {"s1", "s2"}

Min(a, b) == IF a <= b THEN a ELSE b

-----------------------------------------------------------------------------
(* Responses *)

HTTPException(status_code, detail) ==
    [type |-> "HTTPException", status |-> status_code, detail |-> detail]

InvalidCredentials == HTTPException(401, "invalid credentials")
InvalidToken == HTTPException(401, "invalid bearer token")
ExpiredToken == HTTPException(403, "bearer token expired")
UserExists == HTTPException(409, "username exists")
InactiveUser == HTTPException(403, "user inactive")

\* An exception no handler catches: the framework answers 500.
Unhandled(exc) == [type |-> "Unhandled", status |-> 500, exc |-> exc]

PlainTextResponse(body, headers) ==
    [type |-> "PlainTextResponse", status |-> 200, body |-> body, headers |-> headers]

AccessToken(access_token, token_type) ==
    [type |-> "AccessToken", status |-> 200,
     access_token |-> access_token, token_type |-> token_type]

NoResponse == [type |-> "None"]

-----------------------------------------------------------------------------
(* hashing.py: tokens *)

\* The signing key of issueJSONWebToken / decodeJSONWebToken.
SecretKey == "727FC4..."
Algorithm == "HS256"

\* int() of a float timestamp: the whole seconds, as a tick count.
IntOf(ts) == (ts \div TicksPerSecond) * TicksPerSecond

\* The HMAC of header and payload under a key: injective in all three.
Sign(key, alg, payload) == <<key, alg, payload>>

\* jwt.encode(payload, key, algorithm)
JwtEncode(payload, key, alg) ==
    [alg |-> alg, payload |-> payload, signature |-> Sign(key, alg, payload)]

\* (tokenLifeSpan with the lifespan left out of the expiry)
tokenLifeSpan_NoLifetime(span, t) == <<t, t>>

\* tokenLifeSpan(lifespan) called at clock reading t: (issue, expiry)
tokenLifeSpan(span, t) == <<t, t + span * TicksPerSecond>>

\* issueJSONWebToken(username) called at clock reading t
issueJSONWebToken(username, t) ==
    LET life == tokenLifeSpan(lifespan, t)
        payload == [sub |-> username, iat |-> life[1], exp |-> life[2]]
    IN  JwtEncode(payload, SecretKey, Algorithm)

\* (jwt.decode with the signature left unverified)
JwtDecode_NoSignatureCheck(token, key, algs, leeway, t) ==
    IF token.alg \notin algs
      THEN [type |-> "PyJWTError", exc |-> "InvalidAlgorithmError"]
    ELSE IF IntOf(token.payload.exp) <= t - leeway
      THEN [type |-> "PyJWTError", exc |-> "ExpiredSignatureError"]
    ELSE [type |-> "dict", sub |-> token.payload.sub,
          iat |-> token.payload.iat, exp |-> token.payload.exp]

\* jwt.decode(token, key, algorithms, leeway) at clock reading t: the payload,
\* or the PyJWTError it raises.  exp is expired when int(exp) <= now - leeway,
\* iat is immature when int(iat) > now + leeway.
JwtDecode(token, key, algs, leeway, t) ==
    IF token.alg \notin algs
      THEN [type |-> "PyJWTError", exc |-> "InvalidAlgorithmError"]
    ELSE IF token.signature # Sign(key, token.alg, token.payload)
      THEN [type |-> "PyJWTError", exc |-> "InvalidSignatureError"]
    ELSE IF IntOf(token.payload.iat) > t + leeway
      THEN [type |-> "PyJWTError", exc |-> "ImmatureSignatureError"]
    ELSE IF IntOf(token.payload.exp) <= t - leeway
      THEN [type |-> "PyJWTError", exc |-> "ExpiredSignatureError"]
    ELSE [type |-> "dict", sub |-> token.payload.sub,
          iat |-> token.payload.iat, exp |-> token.payload.exp]

None == [type |-> "NoneType"]

\* (decodeJSONWebToken sliding the expiry forward from the time of the check)
decodeJSONWebToken_SlidingExpiry(token, t) ==
    LET r == JwtDecode(token, SecretKey, {Algorithm},
                       lifespan * TicksPerSecond, t)
    IN  IF r.type = "PyJWTError" THEN None
        ELSE [r EXCEPT !.exp = t + lifespan * TicksPerSecond]

\* decodeJSONWebToken(token) at clock reading t: the payload or None
decodeJSONWebToken(token, t) ==
    LET r == JwtDecode(token, SecretKey, {Algorithm},
                       lifespan * TicksPerSecond, t)
    IN  IF r.type = "PyJWTError" THEN None ELSE r

\* decodeTimestamp(unix_timestamp): strftime of the UTC time under the format
\* "%Y-%m-%d %M:%M:%S %Z".  The text holds the date, the minute (twice), the
\* second and the zone; it holds no hour and no fraction of a second.
decodeTimestamp(ts) ==
    LET seconds == ts \div TicksPerSecond
    IN  [date |-> seconds \div 86400,
         minute |-> (seconds \div 60) % 60,
         second |-> seconds % 60,
         tz |-> "UTC"]

-----------------------------------------------------------------------------
(* __init__.py: the token handlers.  A handler returns a response or raises;  *)
(* what it raises and nobody catches reaches the client as a 500.             *)

Return(v) == [raised |-> FALSE, value |-> v]
Raise(e) == [raised |-> TRUE, value |-> e]

\* obj[key] in Python: only a dict is subscriptable.
Subscriptable(obj) == obj.type = "dict"

\* (current_user with < in place of <= in the expiry comparison)
current_user_StrictExpiry(token, t1, t2) ==
    LET payload == decodeJSONWebToken(token, t1)
    IN  IF payload.type = "NoneType" THEN Raise(InvalidToken)
        ELSE IF payload.exp < t2 THEN Raise(ExpiredToken)
        ELSE Return(PlainTextResponse(
                 payload.sub,
                 [X_Token_Expiry |-> decodeTimestamp(payload.exp)]))

\* current_user(token): t1 is the clock PyJWT reads inside jwt.decode, t2 the
\* clock read by the expiry comparison of line 147.
current_user(token, t1, t2) ==
    LET payload == decodeJSONWebToken(token, t1)
    IN  IF payload.type = "NoneType" THEN Raise(InvalidToken)
        ELSE IF payload.exp <= t2 THEN Raise(ExpiredToken)
        ELSE Return(PlainTextResponse(
                 payload.sub,
                 [X_Token_Expiry |-> decodeTimestamp(payload.exp)]))

\* (renew_json_web_token issuing for the bearer's subject whatever
\* current_user raised)
renew_json_web_token_IssuesAnyway(token, t1, t2, t3) ==
    Return(AccessToken(issueJSONWebToken(token.payload.sub, t3), "Bearer"))

\* renew_json_web_token(token): t3 is the clock read by issueJSONWebToken.
renew_json_web_token(token, t1, t2, t3) ==
    LET payload == current_user(token, t1, t2)
    IN  IF payload.raised THEN payload
        ELSE IF ~Subscriptable(payload.value) THEN Raise(Unhandled("TypeError"))
        ELSE Return(AccessToken(issueJSONWebToken(payload.value.sub, t3), "Bearer"))

\* The clock readings of one handler run that reads the clock n times: the
\* first reading is the current time, and the clock may advance by a tick
\* between one reading and the next, up to the horizon of the run.
ClockReads2(horizon) ==
    {r \in (now .. Min(now + 1, horizon)) \X (now .. Min(now + 1, horizon)) :
        r[1] = now}
ClockReads3(horizon) ==
    {r \in (now .. Min(now + 2, horizon)) \X (now .. Min(now + 2, horizon))
              \X (now .. Min(now + 2, horizon)) :
        /\ r[1] = now
        /\ r[2] \in r[1] .. r[1] + 1
        /\ r[3] \in r[2] .. r[2] + 1}

-----------------------------------------------------------------------------
(* hashing.py: passwords *)

\* hashlib.scrypt(password, salt, n, r, p, dklen) of the UTF-8 bytes of the
\* password: a function of password and salt, here without collisions.
scrypt(password, salt) == [kdf |-> "scrypt", password |-> password, salt |-> salt]

\* hashPassword(plain_text_password, salt): (hashed_password, salt).  The
\* caller passes the 16 bytes os.urandom returned when the code draws them.
hashPassword(plain_text_password, salt) ==
    <<scrypt(plain_text_password, salt), salt>>

\* (verifyPassword comparing the salt where the hash belongs)
verifyPassword_ComparesSalt(plain_text_password, hashed_password, salt) ==
    hashPassword(plain_text_password, salt)[2] = salt

\* verifyPassword(plain_text_password, hashed_password, salt)
verifyPassword(plain_text_password, hashed_password, salt) ==
    hashPassword(plain_text_password, salt)[1] = hashed_password

-----------------------------------------------------------------------------
(* models.py: the rows.  first_name and last_name are free text that no     *)
(* handler reads back; the rows of the model leave them out.                *)

\* Users(username, password): user_id from randomULID, active True,
\* created_on and last_login from currentUTCDateTime.
UsersRow(user_id, username, password, t) ==
    [user_id |-> user_id, username |-> username, password |-> password,
     active |-> TRUE, created_on |-> t, last_login |-> t]

\* Salts(salt, user_id): salt_id from randomULID.
SaltsRow(salt_id, salt, user_id, t) ==
    [salt_id |-> salt_id, salt |-> salt, user_id |-> user_id,
     created_on |-> t, updated_on |-> t]

NoWrites == [users |-> {}, salts |-> {}]

-----------------------------------------------------------------------------
(* database.py over the committed rows *)

\* (usernameExists with the count compared one too high)
usernameExists_OffByOne(username) ==
    Cardinality({r \in users : r.username = username}) > 1

\* usernameExists(username)
usernameExists(username) ==
    Cardinality({r \in users : r.username = username}) > 0

\* The rows of retrieveUser's join; fetchone() returns one of them, or None.
retrieveUser(username) ==
    {<<u, s>> \in users \X salts : u.user_id = s.user_id /\ u.username = username}

\* (the users table without unique=True on username)
UsersConflict_NoUniqueIndex(row) ==
    \E r \in users : r.user_id = row.user_id

\* The unique index of users.username and the primary key: would inserting
\* row into the committed table violate them?
UsersConflict(row) ==
    \E r \in users : r.username = row.username \/ r.user_id = row.user_id

\* InnoDB makes an insert wait while another open transaction holds an
\* uncommitted row with the same unique key.
UsersLockWait(c, row) ==
    \E d \in Clients \ {c} : \E r \in tx[d].users : r.username = row.username

\* The foreign key salts.user_id -> users.user_id, as transaction c sees it.
SaltsForeignKeyOk(c, row) ==
    \E r \in users \cup tx[c].users : r.user_id = row.user_id

\* (the UPDATE without its WHERE clause)
WithLoginTimestamp_AllRows(table, username, t) ==
    {[r EXCEPT !.last_login = t] : r \in table}

\* updateLoginTimestamp's UPDATE ... WHERE username = ..., applied to a table.
WithLoginTimestamp(table, username, t) ==
    {IF r.username = username THEN [r EXCEPT !.last_login = t] ELSE r : r \in table}

-----------------------------------------------------------------------------
(* The state after start-up.  The store holds one user from an earlier run, *)
(* active or deactivated; every client is idle.                             *)

NoRequest == [op |-> "none"]
NoLocals == [handler |-> "none"]

SeedUser(active) ==
    [UsersRow(0, "bob", hashPassword("pw1", "s1")[1], 0) EXCEPT !.active = active]
SeedSalt == SaltsRow(1, "s1", 0, 0)

Init ==
    /\ now = 0
    /\ lifespan \in 1 .. MaxLifespan
    /\ \E active \in BOOLEAN : users = {SeedUser(active)}
    /\ salts = {SeedSalt}
    /\ tx = [c \in Clients |-> NoWrites]
    /\ pc = [c \in Clients |-> "idle"]
    /\ req = [c \in Clients |-> NoRequest]
    /\ local = [c \in Clients |-> NoLocals]
    /\ resp = [c \in Clients |-> NoResponse]
    /\ issued = {}
    /\ nextId = 2
    /\ served = 0

\* A handler ends: the client gets its response (what the handler returned,
\* or the exception it raised), the handler's locals are gone and the client
\* is idle again.
Finish(c, outcome) ==
    /\ resp' = [resp EXCEPT ![c] = outcome.value]
    /\ pc' = [pc EXCEPT ![c] = "idle"]
    /\ local' = [local EXCEPT ![c] = NoLocals]

-----------------------------------------------------------------------------
(* create_new_user: POST /create-user *)

\* Lines 63-77: the usernameExists query and, when the name is free, the
\* hash and the two rows.  The handler runs from one await to the next
\* without interruption.
SignupStart(c) ==
    /\ pc[c] = "idle"
    /\ served < MaxRequests
    /\ served' = served + 1
    /\ \E username \in Usernames, password \in Passwords, urandom \in SaltValues :
        LET userExistsFlag == usernameExists(username)
            hashed == hashPassword(password, urandom)
            entryUsers == UsersRow(nextId, username, hashed[1], now)
            entrySalt == SaltsRow(nextId + 1, hashed[2], entryUsers.user_id, now)
        IN  /\ req' = [req EXCEPT ![c] = [op |-> "create-user",
                           username |-> username, password |-> password]]
            /\ IF userExistsFlag
                 THEN /\ Finish(c, Raise(UserExists))
                      /\ UNCHANGED nextId
                 ELSE /\ pc' = [pc EXCEPT ![c] = "insert_user"]
                      /\ local' = [local EXCEPT ![c] =
                             [handler |-> "create_new_user",
                              entryUsers |-> entryUsers, entrySalt |-> entrySalt]]
                      /\ nextId' = nextId + 2
                      /\ UNCHANGED resp
    /\ UNCHANGED <<now, lifespan, users, salts, tx, issued>>

\* (the INSERT INTO users committed on its own, outside the transaction)
InsertUser_Autocommit(c) ==
    /\ pc[c] = "insert_user"
    /\ IF UsersConflict(local[c].entryUsers)
         THEN /\ Finish(c, Raise(Unhandled("IntegrityError")))
              /\ UNCHANGED users
         ELSE /\ users' = users \cup {local[c].entryUsers}
              /\ pc' = [pc EXCEPT ![c] = "insert_salt"]
              /\ UNCHANGED <<resp, local>>
    /\ UNCHANGED <<now, lifespan, salts, tx, req, issued, nextId, served>>

\* updateDatabaseWithNewUser, line 94: INSERT INTO users inside the open
\* transaction.  A duplicate key raises IntegrityError, session.begin() rolls
\* back, and nothing in create_new_user catches the exception.
InsertUser(c) ==
    /\ pc[c] = "insert_user"
    /\ ~UsersLockWait(c, local[c].entryUsers)
    /\ IF UsersConflict(local[c].entryUsers)
         THEN /\ Finish(c, Raise(Unhandled("IntegrityError")))
              /\ tx' = [tx EXCEPT ![c] = NoWrites]
         ELSE /\ tx' = [tx EXCEPT ![c].users = @ \cup {local[c].entryUsers}]
              /\ pc' = [pc EXCEPT ![c] = "insert_salt"]
              /\ UNCHANGED <<resp, local>>
    /\ UNCHANGED <<now, lifespan, users, salts, req, issued, nextId, served>>

\* updateDatabaseWithNewUser, line 95: INSERT INTO salts in the same
\* transaction.
InsertSalt(c) ==
    /\ pc[c] = "insert_salt"
    /\ IF SaltsForeignKeyOk(c, local[c].entrySalt)
         THEN /\ tx' = [tx EXCEPT ![c].salts = @ \cup {local[c].entrySalt}]
              /\ pc' = [pc EXCEPT ![c] = "commit"]
              /\ UNCHANGED <<resp, local>>
         ELSE /\ Finish(c, Raise(Unhandled("IntegrityError")))
              /\ tx' = [tx EXCEPT ![c] = NoWrites]
    /\ UNCHANGED <<now, lifespan, users, salts, req, issued, nextId, served>>

\* The end of "async with session.begin()": COMMIT makes both rows visible
\* at once; then line 81 returns the username with status 201.
Commit(c) ==
    /\ pc[c] = "commit"
    /\ users' = users \cup tx[c].users
    /\ salts' = salts \cup tx[c].salts
    /\ tx' = [tx EXCEPT ![c] = NoWrites]
    /\ Finish(c, Return([PlainTextResponse(req[c].username, [none |-> TRUE])
                            EXCEPT !.status = 201]))
    /\ UNCHANGED <<now, lifespan, req, issued, nextId, served>>

\* updateDatabaseWithNewUser, line 94, when the statement fails for a reason
\* other than a key conflict (the server is unreachable, the connection
\* drops): the exception leaves "async with session.begin()", which rolls the
\* transaction back, and create_new_user does not catch it.
InsertUserFails(c) ==
    /\ pc[c] = "insert_user"
    /\ Finish(c, Raise(Unhandled("OperationalError")))
    /\ tx' = [tx EXCEPT ![c] = NoWrites]
    /\ UNCHANGED <<now, lifespan, users, salts, req, issued, nextId, served>>

\* (the failed INSERT INTO salts leaving the users row of its transaction
\* behind)
InsertSaltFails_NoRollback(c) ==
    /\ pc[c] = "insert_salt"
    /\ Finish(c, Raise(Unhandled("OperationalError")))
    /\ users' = users \cup tx[c].users
    /\ tx' = [tx EXCEPT ![c] = NoWrites]
    /\ UNCHANGED <<now, lifespan, salts, req, issued, nextId, served>>

\* updateDatabaseWithNewUser, line 95, when the statement fails: the users
\* row written at line 94 is rolled back with the transaction.
InsertSaltFails(c) ==
    /\ pc[c] = "insert_salt"
    /\ Finish(c, Raise(Unhandled("OperationalError")))
    /\ tx' = [tx EXCEPT ![c] = NoWrites]
    /\ UNCHANGED <<now, lifespan, users, salts, req, issued, nextId, served>>

-----------------------------------------------------------------------------
(* user_login: POST /token *)

\* (the unknown username answered with an error of its own)
login_precheck_UserNotFound(userExistsFlag) ==
    IF ~userExistsFlag THEN Raise(HTTPException(404, "user not found"))
    ELSE Return(None)

\* Lines 104-105: an unknown username raises InvalidCredentials.
login_precheck(userExistsFlag) ==
    IF ~userExistsFlag THEN Raise(InvalidCredentials) ELSE Return(None)

\* (the active check made before the password check)
login_checks_ActiveFirst(password, user, salt) ==
    IF ~user.active THEN Raise(InactiveUser)
    ELSE IF ~verifyPassword(password, user.password, salt.salt)
      THEN Raise(InvalidCredentials)
    ELSE Return(None)

\* Lines 110-117: the password is verified, then the active flag is checked.
login_checks(password, user, salt) ==
    LET passwordVerified == verifyPassword(password, user.password, salt.salt)
    IN  IF ~passwordVerified THEN Raise(InvalidCredentials)
        ELSE IF ~user.active THEN Raise(InactiveUser)
        ELSE Return(None)

\* Lines 103-105: the usernameExists query.
LoginStart(c) ==
    /\ pc[c] = "idle"
    /\ served < MaxRequests
    /\ served' = served + 1
    /\ \E username \in Usernames, password \in Passwords :
        LET userExistsFlag == usernameExists(username)
        IN  /\ req' = [req EXCEPT ![c] = [op |-> "token",
                           username |-> username, password |-> password]]
            /\ IF login_precheck(userExistsFlag).raised
                 THEN Finish(c, login_precheck(userExistsFlag))
                 ELSE /\ pc' = [pc EXCEPT ![c] = "retrieve"]
                      /\ UNCHANGED <<resp, local>>
    /\ UNCHANGED <<now, lifespan, users, salts, tx, issued, nextId>>

\* Lines 108-117 and the query of updateLoginTimestamp (database.py 75-79):
\* retrieveUser, the password check, the active check, and the timestamp the
\* UPDATE will carry.  Unpacking the None of an empty join is a TypeError.
LoginRetrieve(c) ==
    /\ pc[c] = "retrieve"
    /\ IF retrieveUser(req[c].username) = {}
         THEN Finish(c, Raise(Unhandled("TypeError")))
         ELSE \E row \in retrieveUser(req[c].username) :
            LET user == row[1]
                salt == row[2]
                checked == login_checks(req[c].password, user, salt)
            IN  IF checked.raised THEN Finish(c, checked)
                ELSE /\ pc' = [pc EXCEPT ![c] = "update"]
                     /\ local' = [local EXCEPT ![c] =
                            [handler |-> "user_login",
                             username |-> user.username, last_login |-> now]]
                     /\ UNCHANGED resp
    /\ UNCHANGED <<now, lifespan, users, salts, tx, req, issued, nextId, served>>

\* Lines 121-123: issue the token and answer with it.
IssueAccessToken(c, username) ==
    LET token == issueJSONWebToken(username, now)
    IN  /\ issued' = issued \cup {token}
        /\ Finish(c, Return(AccessToken(token, "Bearer")))

\* Line 119 to the end: the UPDATE of last_login commits, then the token is
\* issued.
LoginUpdate(c) ==
    /\ pc[c] = "update"
    /\ users' = WithLoginTimestamp(users, local[c].username, local[c].last_login)
    /\ IssueAccessToken(c, req[c].username)
    /\ UNCHANGED <<now, lifespan, salts, tx, req, nextId, served>>

\* (the login that answers with a token although the UPDATE failed)
LoginUpdateFails_TokenAnyway(c) ==
    /\ pc[c] = "update"
    /\ IssueAccessToken(c, req[c].username)
    /\ UNCHANGED <<now, lifespan, users, salts, tx, req, nextId, served>>

\* Line 119 when updateLoginTimestamp raises: the UPDATE is rolled back, the
\* exception leaves user_login, and line 121 is not reached.
LoginUpdateFails(c) ==
    /\ pc[c] = "update"
    /\ Finish(c, Raise(Unhandled("OperationalError")))
    /\ UNCHANGED <<now, lifespan, users, salts, tx, req, issued, nextId, served>>

-----------------------------------------------------------------------------
(* current_user: GET /who-am-i, and renew_json_web_token: GET /extend-token. *)
(* Neither awaits anything that suspends: each is one step.                  *)

\* A key that is not the service's.
ForeignKey == "not-the-secret"

\* Claims of the client's own choosing: a stored user, an expiry that no
\* clock of a run reaches.
ForgedPayload == [sub |-> "bob", iat |-> 0, exp |-> MaxTokenTime + 1]

\* The bearer strings a client can make without the service's key: an issued
\* token re-signed under another key, an issued token whose payload was
\* altered under the signature it came with, a token of the client's own
\* making under another key, and an unsigned token.
Forged ==
    {[token EXCEPT !.signature = Sign(ForeignKey, token.alg, token.payload)] :
        token \in issued}
    \cup {[token EXCEPT !.payload.exp = token.payload.exp + TicksPerSecond] :
        token \in issued}
    \cup {JwtEncode(ForgedPayload, ForeignKey, Algorithm)}
    \cup {[alg |-> "none", payload |-> ForgedPayload, signature |-> <<>>]}

\* The Authorization header of a request carries any bearer string.
Presentable == issued \cup Forged

\* The handlers below take the horizon of the clock and what the request
\* counts towards the requests accepted in one run.
WhoAmI(c, horizon, cost) ==
    /\ pc[c] = "idle"
    /\ served + cost <= MaxRequests
    /\ served' = served + cost
    /\ \E token \in Presentable, clock \in ClockReads2(horizon) :
        /\ req' = [req EXCEPT ![c] =
               [op |-> "who-am-i", token |-> token, clock |-> clock]]
        /\ Finish(c, current_user(token, clock[1], clock[2]))
        /\ now' = clock[2]
    /\ UNCHANGED <<lifespan, users, salts, tx, issued, nextId>>

Renew(c, horizon, cost) ==
    /\ pc[c] = "idle"
    /\ served + cost <= MaxRequests
    /\ served' = served + cost
    /\ \E token \in Presentable, clock \in ClockReads3(horizon) :
        LET outcome == renew_json_web_token(token, clock[1], clock[2], clock[3])
        IN  /\ req' = [req EXCEPT ![c] =
                   [op |-> "extend-token", token |-> token, clock |-> clock]]
            /\ Finish(c, outcome)
            /\ issued' = IF outcome.raised THEN issued
                         ELSE issued \cup {outcome.value.access_token}
            /\ now' = IF outcome.raised THEN clock[2] ELSE clock[3]
    /\ UNCHANGED <<lifespan, users, salts, tx, nextId>>

\* The wall clock advances.
Tick(horizon) ==
    /\ now < horizon
    /\ now' = now + 1
    /\ UNCHANGED <<lifespan, users, salts, tx, pc, req, local, resp, issued, nextId, served>>

\* Line 121 reached by a login that passed every check: the token service
\* on its own issues a token for a username.
Login(c) ==
    /\ pc[c] = "idle"
    /\ Cardinality(issued) < MaxTokens
    /\ \E username \in Usernames :
        /\ req' = [req EXCEPT ![c] = [op |-> "token", username |-> username]]
        /\ IssueAccessToken(c, username)
    /\ UNCHANGED <<now, lifespan, users, salts, tx, nextId, served>>

-----------------------------------------------------------------------------
(* Signup and login over the store (Spec).  The token handlers never touch *)
(* the store and are exercised by SpecToken below.                         *)

Next ==
    \/ \E c \in Clients :
        \/ SignupStart(c)
        \/ InsertUser(c)
        \/ InsertSalt(c)
        \/ Commit(c)
        \/ LoginStart(c)
        \/ LoginRetrieve(c)
        \/ LoginUpdate(c)
    \/ Tick(MaxTime)

Spec == Init /\ [][Next]_vars

(* Signup and login over a store whose statements can fail. *)

NextFault ==
    \/ Next
    \/ \E c \in Clients :
        \/ InsertUserFails(c)
        \/ InsertSaltFails(c)
        \/ LoginUpdateFails(c)

SpecFault == Init /\ [][NextFault]_vars

(* All four request kinds over the store: signups and logins of both       *)
(* clients, and who-am-i and extend-token requests among them.              *)

NextAll ==
    \/ Next
    \/ \E c \in TokenClients :
        \/ WhoAmI(c, MaxTime, 1)
        \/ Renew(c, MaxTime, 1)

SpecAll == Init /\ [][NextAll]_vars

(* The token service alone, over a longer stretch of time.  Its handlers    *)
(* are single steps that share nothing but the clock and the configuration, *)
(* so one client drives it.                                                 *)

NextToken ==
    \/ \E c \in TokenClients :
        \/ Login(c)
        \/ WhoAmI(c, MaxTokenTime, 0)
        \/ Renew(c, MaxTokenTime, 0)
    \/ Tick(MaxTokenTime)

SpecToken == Init /\ [][NextToken]_vars

-----------------------------------------------------------------------------
(* Vocabulary of the properties *)

Stored(username) == \E r \in users : r.username = username

\* The stored user of that name is active / deactivated.
StoredActive(username, active) ==
    \E r \in users : r.username = username /\ r.active = active

\* The password is the one the stored hash of that user was derived from.
CorrectPassword(username, password) ==
    \E r \in users, s \in salts :
        /\ r.username = username
        /\ s.user_id = r.user_id
        /\ r.password = scrypt(password, s.salt)

\* Client c's last request was op and its handler has ended.
Answered(c, op) == req[c].op = op /\ pc[c] = "idle"

Created(c) == resp[c].type = "PlainTextResponse" /\ resp[c].status = 201

\* A who-am-i answer that returns the subject of the token.
ReturnsSubject(response, token) ==
    /\ response.type = "PlainTextResponse"
    /\ response.body = token.payload.sub

\* The request failed on an error of the database that no handler caught.
PersistenceFailure(response) ==
    /\ response.type = "Unhandled"
    /\ response.exc \in {"IntegrityError", "OperationalError"}

-----------------------------------------------------------------------------
(* Properties of the token service (SpecToken).  JWT_LIFESPAN is positive  *)
(* in every run: lifespan ranges over 1 .. MaxLifespan.                     *)

\* C1: for every token the service issued, a who-am-i whose clock readings
\* are all at or after the token's expires_at, however long after, fails with
\* ExpiredToken and never with InvalidToken.
C1_ExpiredNeverInvalid ==
    \A c \in Clients :
        (/\ Answered(c, "who-am-i")
         /\ req[c].token \in issued
         /\ req[c].clock[1] >= req[c].token.payload.exp)
        => resp[c] = ExpiredToken

\* C2: for every token on which who-am-i succeeds (issued by the service and
\* now < expires_at), extend-token succeeds and returns a Bearer AccessToken
\* whose subject is the input token's subject and whose expires_at is its
\* issue time plus the configured lifetime.
C2_RenewSucceeds ==
    \A c \in Clients :
        (/\ Answered(c, "extend-token")
         /\ req[c].token \in issued
         /\ req[c].clock[2] < req[c].token.payload.exp)
        => /\ resp[c].type = "AccessToken"
           /\ resp[c].token_type = "Bearer"
           /\ resp[c].access_token.payload.sub = req[c].token.payload.sub
           /\ resp[c].access_token.payload.exp =
                  resp[c].access_token.payload.iat + lifespan * TicksPerSecond

\* C9: for a token the service issued, who-am-i returns the subject if and
\* only if the clock read by the expiry comparison is before expires_at; a
\* token whose expires_at equals that reading exactly is answered ExpiredToken.
C9_ExpiryBoundary ==
    \A c \in Clients :
        (Answered(c, "who-am-i") /\ req[c].token \in issued)
        => /\ ReturnsSubject(resp[c], req[c].token)
                <=> req[c].clock[2] < req[c].token.payload.exp
           /\ req[c].clock[2] = req[c].token.payload.exp => resp[c] = ExpiredToken

C9_Witness ==
    \E c \in Clients :
        /\ Answered(c, "who-am-i")
        /\ req[c].token \in issued
        /\ req[c].clock[2] = req[c].token.payload.exp
        /\ resp[c] = ExpiredToken

\* C10: for every username and every positive configured lifetime, a token
\* just issued validates at the instant of its issue: decodeJSONWebToken
\* returns claims whose subject is the username the token was issued for,
\* with issued_at < expires_at and expires_at = issued_at + lifetime, and
\* who-am-i returns that subject.
C10_IssueThenValidate ==
    \A c \in Clients :
        (Answered(c, "token") /\ resp[c].type = "AccessToken")
        => LET token == resp[c].access_token
               at == token.payload.iat
               claims == decodeJSONWebToken(token, at)
           IN  /\ resp[c].token_type = "Bearer"
               /\ claims.type = "dict"
               /\ claims.sub = req[c].username
               /\ claims.iat < claims.exp
               /\ claims.exp = claims.iat + lifespan * TicksPerSecond
               /\ ReturnsSubject(current_user(token, at, at).value, token)

C10_Witness ==
    \E c \in Clients :
        /\ Answered(c, "token")
        /\ resp[c].type = "AccessToken"
        /\ resp[c].access_token.payload.sub = req[c].username
        /\ resp[c].access_token.payload.iat = now

\* C11: a bearer string that the service's issue operation did not produce
\* (forged under another key, unsigned, or an issued token whose signature or
\* payload was tampered with) is answered InvalidToken by who-am-i at every
\* clock reading: never a subject, never ExpiredToken.
C11_ForgedAlwaysInvalid ==
    \A c \in Clients :
        (Answered(c, "who-am-i") /\ req[c].token \notin issued)
        => resp[c] = InvalidToken

\* A re-signed copy of an issued token, presented while the original is
\* still within its lifetime, is refused.
C11_Witness ==
    \E c \in Clients, original \in issued :
        /\ Answered(c, "who-am-i")
        /\ req[c].token \notin issued
        /\ req[c].token.payload = original.payload
        /\ req[c].clock[2] < original.payload.exp
        /\ resp[c] = InvalidToken

\* C13: when who-am-i refuses a token at the clock readings of an
\* extend-token request (InvalidToken for a token that does not validate,
\* ExpiredToken for an expired one), extend-token is answered with exactly
\* that refusal and no token is issued.
C13_RenewFailsLikeWhoAmI ==
    [][\A c \in Clients :
        req'[c].op = "extend-token"
        => LET who == current_user(req'[c].token, req'[c].clock[1],
                                   req'[c].clock[2])
           IN  who.raised
               => /\ who.value \in {InvalidToken, ExpiredToken}
                  /\ resp'[c] = who.value
                  /\ issued' = issued]_vars

\* extend-token has refused an issued token as expired, and the token it
\* was asked to extend is still the only one issued.
C13_Witness ==
    \E c \in Clients :
        /\ Answered(c, "extend-token")
        /\ issued = {req[c].token}
        /\ req[c].clock[2] >= req[c].token.payload.exp
        /\ resp[c] = ExpiredToken

\* C14: a successful who-am-i returns the token's subject together with both
\* the issued-at and the expiry timestamps of the token.
C14_ReturnsBothTimestamps ==
    \A c \in Clients :
        (Answered(c, "who-am-i") /\ resp[c].type = "PlainTextResponse")
        => /\ resp[c].body = req[c].token.payload.sub
           /\ \E h \in DOMAIN resp[c].headers :
                resp[c].headers[h] = decodeTimestamp(req[c].token.payload.exp)
           /\ \E h \in DOMAIN resp[c].headers :
                resp[c].headers[h] = decodeTimestamp(req[c].token.payload.iat)

\* C18: the clock never goes back, and acceptance of a token is monotone in
\* time: when who-am-i has refused a token (ExpiredToken or InvalidToken),
\* a later who-am-i for the same token does not return its subject; issued
\* tokens are never altered, and a token is only ever accepted before the
\* expires_at it was issued with.
C18_AcceptanceMonotone ==
    [][/\ now' >= now
       /\ issued \subseteq issued'
       /\ \A c \in Clients :
            /\ (/\ Answered(c, "who-am-i")
                /\ resp[c] \in {ExpiredToken, InvalidToken}
                /\ req'[c].op = "who-am-i"
                /\ req'[c].token = req[c].token)
                => ~ReturnsSubject(resp'[c], req'[c].token)
            /\ (req'[c].op = "who-am-i"
                /\ ReturnsSubject(resp'[c], req'[c].token))
                => /\ req'[c].token \in issued'
                   /\ req'[c].clock[2] < req'[c].token.payload.exp]_vars

\* who-am-i has refused an issued token as expired, the clock has moved on
\* since, and there is time left to ask again.
C18_Witness ==
    \E c \in Clients :
        /\ Answered(c, "who-am-i")
        /\ req[c].token \in issued
        /\ resp[c] = ExpiredToken
        /\ now > req[c].clock[2]
        /\ now < MaxTokenTime

-----------------------------------------------------------------------------
(* Properties of signup and login (Spec) *)

\* C3: under every interleaving of concurrent signups for one username, in
\* every reachable state at most one User row has that username, no two
\* signups for it have both succeeded, and once a signup for it has ended,
\* whatever its outcome, the username is stored: exactly one signup wins.
C3_OneSignupWins ==
    /\ \A u \in Usernames : Cardinality({r \in users : r.username = u}) <= 1
    /\ \A c, d \in Clients :
        (/\ c # d
         /\ Answered(c, "create-user")
         /\ Answered(d, "create-user")
         /\ req[c].username = req[d].username)
        => ~(Created(c) /\ Created(d))
    /\ \A c \in Clients : Answered(c, "create-user") => Stored(req[c].username)

\* Two signups for the same new username raced: both passed the pre-check,
\* one committed and the other was refused by the unique index.
C3_Witness ==
    \E c, d \in Clients :
        /\ c # d
        /\ Answered(c, "create-user")
        /\ Answered(d, "create-user")
        /\ req[c].username = req[d].username
        /\ Created(c)
        /\ resp[d] = Unhandled("IntegrityError")

\* C4: every signup that does not succeed ends with the UsernameExists
\* outcome, the one refused by the unique index on insert included.
C4_LosersSeeUsernameExists ==
    \A c \in Clients :
        (Answered(c, "create-user") /\ ~Created(c)) => resp[c] = UserExists

\* C5: in every state, every committed User row has exactly one committed
\* Salt row with its user_id and every committed Salt row references a
\* committed User row; no login ever finds the join of a stored user empty.
C5_UserAndSaltTogether ==
    /\ \A u \in users : Cardinality({s \in salts : s.user_id = u.user_id}) = 1
    /\ \A s \in salts : \E u \in users : u.user_id = s.user_id
    /\ \A c \in Clients : Answered(c, "token") => resp[c] # Unhandled("TypeError")

\* A signup is between its two inserts while another client has had a login
\* for that username answered.
C5_Witness ==
    \E c, d \in Clients :
        /\ c # d
        /\ pc[c] = "insert_salt"
        /\ tx[c].users # {}
        /\ tx[c].salts = {}
        /\ Answered(d, "token")
        /\ req[d].username = req[c].username

\* C6: a signup whose username is already stored fails with UsernameExists
\* and leaves the Users and Salts tables unchanged: one row with that
\* username before and after, no Salt row added, nothing left uncommitted.
C6_ExistingUsernameRejected ==
    [][\A c \in Clients :
        (SignupStart(c) /\ Stored(req'[c].username))
        => /\ resp'[c] = UserExists
           /\ pc'[c] = "idle"
           /\ users' = users
           /\ salts' = salts
           /\ tx' = tx
           /\ Cardinality({r \in users' : r.username = req'[c].username}) = 1]_vars

C6_Witness ==
    \E c \in Clients :
        /\ Answered(c, "create-user")
        /\ resp[c] = UserExists
        /\ Cardinality({r \in users : r.username = req[c].username}) = 1

-----------------------------------------------------------------------------
(* Properties of signup and login over a failing store (SpecFault) *)

\* C15: login issues a token only after the last_login update has been
\* committed.  The step that ends a login which passed every check either
\* fails with PersistenceFailure, issues no token and leaves the users table
\* as it was, or answers with a token, and then the stored last_login of the
\* user is the time the login took for the update, which is not later than
\* the issue time of the token.
C15_TokenAfterLastLogin ==
    [][\A c \in Clients :
        (pc[c] = "update" /\ pc'[c] # "update")
        => \/ /\ PersistenceFailure(resp'[c])
              /\ issued' = issued
              /\ users' = users
           \/ /\ resp'[c].type = "AccessToken"
              /\ resp'[c].access_token \in issued'
              /\ \E r \in users' : r.username = req[c].username
              /\ \A r \in users' :
                    r.username = req[c].username
                    => /\ r.last_login = local[c].last_login
                       /\ r.last_login <= resp'[c].access_token.payload.iat]_vars

\* One login was answered with a token and moved the user's last_login off
\* its creation time; another found the store failing and got no token.
C15_Witness ==
    \E c \in Clients, d \in Clients, r \in users :
        /\ Answered(c, "token")
        /\ resp[c].type = "AccessToken"
        /\ r.username = req[c].username
        /\ r.last_login > r.created_on
        /\ Answered(d, "token")
        /\ PersistenceFailure(resp[d])

\* C16: when the User insert or the Salt insert of a signup fails, the signup
\* fails with PersistenceFailure, nothing it wrote was or becomes visible,
\* and the Users and Salts tables are left as they were: the other insert is
\* rolled back.
C16_FailedInsertRollsBack ==
    [][\A c \in Clients :
        (pc[c] \in {"insert_user", "insert_salt"} /\ pc'[c] = "idle")
        => /\ PersistenceFailure(resp'[c])
           /\ local[c].entryUsers \notin users
           /\ local[c].entrySalt \notin salts
           /\ users' = users
           /\ salts' = salts
           /\ tx'[c] = NoWrites]_vars

\* A signup has ended on a failed insert, its username is not stored, and
\* every stored user still has its salt.
C16_Witness ==
    \E c \in Clients :
        /\ Answered(c, "create-user")
        /\ resp[c] = Unhandled("OperationalError")
        /\ ~Stored(req[c].username)
        /\ \A r \in users : \E x \in salts : x.user_id = r.user_id
        /\ \A x \in salts : \E r \in users : x.user_id = r.user_id

-----------------------------------------------------------------------------
(* Frame of the store over all four request kinds (SpecAll) *)

\* C17: across signup, login, who-am-i and extend-token requests, no Salt
\* row ever changes, and a User row changes only in its last_login and only
\* in the step that ends a login for that user which passed the password
\* and the active check; the store changes in no other step than such a
\* login or the commit of a signup, so every failed login, every who-am-i
\* and every extend-token leaves it as it was, and user_id, username,
\* password hash, salt and created_on are never modified after creation.
C17_OnlyLastLoginChanges ==
    [][/\ salts \subseteq salts'
       /\ \A r \in users :
            r \notin users'
            => /\ \E t \in 0 .. now : [r EXCEPT !.last_login = t] \in users'
               /\ \E c \in Clients :
                    /\ pc[c] = "update"
                    /\ req[c].op = "token"
                    /\ req[c].username = r.username
                    /\ CorrectPassword(r.username, req[c].password)
                    /\ r.active
                    /\ resp'[c].type = "AccessToken"
       /\ (users' # users \/ salts' # salts)
            => \E c \in Clients :
                \/ pc[c] = "update" /\ resp'[c].type = "AccessToken"
                \/ /\ pc[c] = "commit" /\ Created(c)'
                   /\ users \subseteq users'
       /\ \A c \in Clients :
            (\/ /\ pc[c] # "idle" /\ pc'[c] = "idle"
                /\ resp'[c] \in {InvalidCredentials, InactiveUser}
             \/ /\ pc[c] = "idle" /\ served' # served
                /\ req'[c].op \in {"token", "who-am-i", "extend-token"})
            => users' = users /\ salts' = salts]_vars

\* After a login that moved a last_login, a failed login and a who-am-i
\* have been answered.
C17_Witness ==
    \E c \in Clients, d \in Clients, r \in users :
        /\ r.last_login > r.created_on
        /\ Answered(c, "who-am-i")
        /\ Answered(d, "token")
        /\ resp[d] = InvalidCredentials

=============================================================================
